---- MODULE Spec2Model ----
(***************************************************************************)
(* Model of py_pdf_parser/tables.py: the two table extractors              *)
(* (extract_simple_table, extract_table), the shape validator              *)
(* (_validate_table_shape) and the header merge (add_header_to_table).     *)
(*                                                                         *)
(* An element is its bounding box; the ElementList `elements` is the       *)
(* sequence of its elements in iteration order, and an element is named by *)
(* its position in that sequence (elements[0] of the source is id 1).  A   *)
(* derived ElementList is the set of the ids it holds and iterates in the  *)
(* order of the collection it was derived from.  Coordinates are integers  *)
(* and every comparison of the source is kept as written (<=, >=), so two  *)
(* boxes that share a coordinate are in line with each other.              *)
(***************************************************************************)
EXTENDS Integers, Sequences, FiniteSets, TLC

VARIABLES elements, layout, table, header, result

vars == <<elements, layout, table, header, result>>

(***************************************************************************)
(* Bounds.                                                                 *)
(***************************************************************************)
\* Spec: collections of at most MaxElems elements, boxes over 0..MaxX by 0..MaxY.
MaxElems == 4
MaxX == 1
MaxY == 2
\* SpecLayout: gap-free layouts of at most MaxLayoutElems elements, coordinates
\* 0..MaxLayoutCoord.
MaxLayoutElems == 4
MaxLayoutCoord == 2
\* SpecShape and SpecHeader: grids of strings and headers.
MaxWidth == 2
MaxShapeRows == 3
MaxHeaderRows == 2
MaxHeaderLen == 3

\* The empty cell of a grid (Python's None); element ids start at 1.
None == 0

\* header=None of add_header_to_table, and a supplied header.
NoHeader == [is_none |-> TRUE, labels |-> <<>>]
Header(h) == [is_none |-> FALSE, labels |-> h]

NoResult ==
    [op |-> "none", status |-> "none", table |-> <<>>, mapped |-> <<>>,
     err_row |-> 0, err_expected |-> 0, err_actual |-> 0]

Outcome(op, status, t) ==
    [op |-> op, status |-> status, table |-> t, mapped |-> <<>>,
     err_row |-> 0, err_expected |-> 0, err_actual |-> 0]

(***************************************************************************)
(* Elements and the spatial queries of the ElementList.                    *)
(***************************************************************************)
Intervals(m) == {iv \in (0..m) \X (0..m) : iv[1] <= iv[2]}

Boxes(mx, my) ==
    {[x0 |-> xi[1], x1 |-> xi[2], y0 |-> yi[1], y1 |-> yi[2]] :
        xi \in Intervals(mx), yi \in Intervals(my)}

Ids == 1..Len(elements)

\* The y-ranges (x-ranges) of the two boxes meet.
YOverlap(a, b) == a.y0 <= b.y1 /\ a.y1 >= b.y0
XOverlap(a, b) == a.x0 <= b.x1 /\ a.x1 >= b.x0

to_the_right_of(S, e) ==
    {k \in S : elements[k].x1 >= elements[e].x1 /\ YOverlap(elements[k], elements[e])}

below(S, e) ==
    {k \in S : elements[k].y0 <= elements[e].y0 /\ XOverlap(elements[k], elements[e])}

horizontally_in_line_with(S, e) == {k \in S : YOverlap(elements[k], elements[e])}

vertically_in_line_with(S, e) == {k \in S : XOverlap(elements[k], elements[e])}

\* Iteration of a derived collection: ascending position in `elements`.
RECURSIVE Iterate(_)
Iterate(S) ==
    IF S = {} THEN <<>>
    ELSE LET m == CHOOSE k \in S : \A j \in S : k <= j
         IN  <<m>> \o Iterate(S \ {m})

\* extract_single_element: the element of a one-element collection; an empty
\* collection is NoElementFoundError, a larger one MultipleElementsFoundError.
Ambiguous(S) == Cardinality(S) > 1
SingleOrNone(S) == IF S = {} THEN None ELSE CHOOSE k \in S : TRUE

(***************************************************************************)
(* _validate_table_shape                                                   *)
(***************************************************************************)
RECURSIVE SumLen(_)
SumLen(t) == IF t = <<>> THEN 0 ELSE Len(Head(t)) + SumLen(Tail(t))

\* Rows (by index, 2..Len) whose length differs from row 1's.
BadRows(t) == {i \in 2..Len(t) : Len(t[i]) # Len(t[1])}

FirstBadRow(t) == CHOOSE i \in BadRows(t) : \A j \in BadRows(t) : i <= j

\* The outcome of _validate_table_shape(t): "ok", or the exception raised,
\* with the row index (0-based, as in the message) and the two lengths.
validate_table_shape(t) ==
    IF Len(t) = 0
    THEN [status |-> "IndexError", row |-> 0, expected |-> 0, actual |-> 0]
    ELSE IF BadRows(t) # {}
    THEN [status |-> "InvalidTableError", row |-> FirstBadRow(t) - 1,
          expected |-> Len(t[1]), actual |-> Len(t[FirstBadRow(t)])]
    ELSE [status |-> "ok", row |-> 0, expected |-> 0, actual |-> 0]

Validated(op, t) ==
    LET v == validate_table_shape(t)
    IN  IF v.status = "ok" THEN Outcome(op, "returned", t)
        ELSE [Outcome(op, v.status, <<>>) EXCEPT !.err_row = v.row,
                  !.err_expected = v.expected, !.err_actual = v.actual]

(***************************************************************************)
(* extract_simple_table                                                    *)
(***************************************************************************)
first_row == Iterate(to_the_right_of(Ids, 1))
first_column == Iterate(below(Ids, 1))

\* Mutant: the two queries take each other's reference element.
simple_cell_swapped(left_hand_element, top_element) ==
    below(to_the_right_of(Ids, top_element), left_hand_element)

simple_cell(left_hand_element, top_element) ==
    below(to_the_right_of(Ids, left_hand_element), top_element)

simple_table ==
    [i \in 1..Len(first_column) |->
        [j \in 1..Len(first_row) |->
            SingleOrNone(simple_cell(first_column[i], first_row[j]))]]

table_size(t) == SumLen(t)

extract_simple_table ==
    IF Len(elements) = 0 THEN Outcome("extract_simple_table", "IndexError", <<>>)
    ELSE IF \E i \in 1..Len(first_column) : \E j \in 1..Len(first_row) :
                Ambiguous(simple_cell(first_column[i], first_row[j]))
    THEN Outcome("extract_simple_table", "MultipleElementsFoundError", <<>>)
    ELSE IF table_size(simple_table) # Len(elements)
    THEN Outcome("extract_simple_table", "TableExtractionError", <<>>)
    ELSE Validated("extract_simple_table", simple_table)

ExtractSimpleTable ==
    /\ result.op = "none"
    /\ result' = extract_simple_table
    /\ UNCHANGED <<elements, layout, table, header>>

(***************************************************************************)
(* extract_table                                                           *)
(***************************************************************************)
rows == {horizontally_in_line_with(Ids, e) : e \in Ids}
cols == {vertically_in_line_with(Ids, e) : e \in Ids}

RECURSIVE SumCard(_)
SumCard(SS) ==
    IF SS = {} THEN 0
    ELSE LET s == CHOOSE x \in SS : TRUE
         IN  Cardinality(s) + SumCard(SS \ {s})

\* Mutant: counts the groups instead of summing their sizes.
InMultipleCountsGroups(groups) == Cardinality(groups) # Cardinality(UNION groups)

\* Mutant: the disjointness check never fires.
InMultipleNever(groups) == FALSE

\* sum([len(g) for g in groups]) != len(set(chain.from_iterable(groups)))
InMultiple(groups) == SumCard(groups) # Cardinality(UNION groups)

MinOf(S) == CHOOSE m \in S : \A n \in S : m <= n

row_key(row) == MinOf({elements[k].y0 : k \in row})
col_key(col) == MinOf({elements[k].x0 : k \in col})

Orderings(SS) ==
    {s \in [1..Cardinality(SS) -> SS] : \A i, j \in DOMAIN s : i # j => s[i] # s[j]}

\* Mutant: reverse=True forgotten.
sorted_rows_ascending ==
    {s \in Orderings(rows) : \A i, j \in DOMAIN s : i < j => row_key(s[i]) <= row_key(s[j])}

\* sorted(rows, key=row_key, reverse=True): any order of the set's iteration
\* that the sort leaves non-increasing in the key.
sorted_rows ==
    {s \in Orderings(rows) : \A i, j \in DOMAIN s : i < j => row_key(s[i]) >= row_key(s[j])}

\* sorted(cols, key=col_key)
sorted_cols ==
    {s \in Orderings(cols) : \A i, j \in DOMAIN s : i < j => col_key(s[i]) <= col_key(s[j])}

aligned_table(sr, sc) ==
    [i \in 1..Len(sr) |-> [j \in 1..Len(sc) |-> SingleOrNone(sr[i] \cap sc[j])]]

\* Mutant: the column check is left out.
extract_table_rows_only(sr, sc) ==
    IF InMultiple(rows)
    THEN Outcome("extract_table", "TableExtractionError: An element is in multiple rows", <<>>)
    ELSE IF \E i \in 1..Len(sr) : \E j \in 1..Len(sc) : Ambiguous(sr[i] \cap sc[j])
    THEN Outcome("extract_table", "MultipleElementsFoundError", <<>>)
    ELSE Validated("extract_table", aligned_table(sr, sc))

extract_table(sr, sc) ==
    IF InMultiple(rows)
    THEN Outcome("extract_table", "TableExtractionError: An element is in multiple rows", <<>>)
    ELSE IF InMultiple(cols)
    THEN Outcome("extract_table", "TableExtractionError: An element is in multiple columns", <<>>)
    ELSE IF \E i \in 1..Len(sr) : \E j \in 1..Len(sc) : Ambiguous(sr[i] \cap sc[j])
    THEN Outcome("extract_table", "MultipleElementsFoundError", <<>>)
    ELSE Validated("extract_table", aligned_table(sr, sc))

ExtractTable ==
    /\ result.op = "none"
    /\ \E sr \in sorted_rows : \E sc \in sorted_cols :
          result' = extract_table(sr, sc)
    /\ UNCHANGED <<elements, layout, table, header>>

(***************************************************************************)
(* add_header_to_table                                                     *)
(***************************************************************************)
Range(f) == {f[i] : i \in DOMAIN f}

\* {header[idx]: element for idx, element in enumerate(row)}: a later index
\* overwrites an earlier one with the same label.
new_row(hdr, row) ==
    [l \in {hdr[idx] : idx \in 1..Len(row)} |->
        row[CHOOSE idx \in 1..Len(row) :
                /\ hdr[idx] = l
                /\ \A other \in 1..Len(row) : hdr[other] = l => other <= idx]]

\* bool(header): None and the empty list are both falsy.
header_provided(h) == ~h.is_none /\ Len(h.labels) # 0

Mapped(status, m) ==
    [op |-> "add_header_to_table", status |-> status, table |-> <<>>, mapped |-> m,
     err_row |-> 0, err_expected |-> 0, err_actual |-> 0]

\* Mutant: the duplicate-label check is left out.
add_header_to_table_no_repeat_check(t, h) ==
    LET v == validate_table_shape(t)
        hdr == IF h.is_none THEN t[1] ELSE h.labels
        new_table == [i \in 1..Len(t) |-> new_row(hdr, t[i])]
    IN  IF v.status # "ok" THEN Validated("add_header_to_table", t)
        ELSE IF ~h.is_none /\ Len(h.labels) # Len(t[1])
        THEN Mapped("InvalidTableHeaderError: length", <<>>)
        ELSE IF ~header_provided(h) THEN Mapped("returned", Tail(new_table))
        ELSE Mapped("returned", new_table)

add_header_to_table(t, h) ==
    LET v == validate_table_shape(t)
        hdr == IF h.is_none THEN t[1] ELSE h.labels
        new_table == [i \in 1..Len(t) |-> new_row(hdr, t[i])]
    IN  IF v.status # "ok" THEN Validated("add_header_to_table", t)
        ELSE IF ~h.is_none /\ Len(h.labels) # Len(t[1])
        THEN Mapped("InvalidTableHeaderError: length", <<>>)
        ELSE IF ~h.is_none /\ Len(h.labels) # Cardinality(Range(h.labels))
        THEN Mapped("InvalidTableHeaderError: repeated", <<>>)
        ELSE IF ~header_provided(h) THEN Mapped("returned", Tail(new_table))
        ELSE Mapped("returned", new_table)

AddHeaderToTable ==
    /\ result.op = "none"
    /\ result' = add_header_to_table(table, header)
    /\ UNCHANGED <<elements, layout, table, header>>

ValidateTableShape ==
    /\ result.op = "none"
    /\ result' = Validated("_validate_table_shape", table)
    /\ UNCHANGED <<elements, layout, table, header>>

(***************************************************************************)
(* Spec: the extractors over arbitrary element collections.                *)
(***************************************************************************)
Init ==
    /\ \E n \in 0..MaxElems : elements \in [1..n -> Boxes(MaxX, MaxY)]
    /\ layout = <<>>
    /\ table = <<>>
    /\ header = NoHeader
    /\ result = NoResult

Next == ExtractTable \/ ExtractSimpleTable

Spec == Init /\ [][Next]_vars

(***************************************************************************)
(* SpecLayout: the extractors over gap-free layouts.  A layout of r rows   *)
(* and c columns places one element in every cell: the elements of a row   *)
(* are horizontally in line with each other and lie strictly above every   *)
(* element of the rows below; the elements of a column are vertically in   *)
(* line with each other and lie strictly left of every element of the      *)
(* columns to the right.  `layout` records which element is in which cell; *)
(* the iteration order of the collection is any permutation of the cells.  *)
(***************************************************************************)
CellRow(p, c) == ((p - 1) \div c) + 1
CellCol(p, c) == ((p - 1) % c) + 1

Meets(iv, jv) == iv[1] <= jv[2] /\ iv[2] >= jv[1]

ColumnsClear(xs, c) ==
    \A p, q \in DOMAIN xs :
        /\ CellCol(p, c) = CellCol(q, c) => Meets(xs[p], xs[q])
        /\ CellCol(p, c) < CellCol(q, c) => xs[p][2] < xs[q][1]

RowsClear(ys, c) ==
    \A p, q \in DOMAIN ys :
        /\ CellRow(p, c) = CellRow(q, c) => Meets(ys[p], ys[q])
        /\ CellRow(p, c) < CellRow(q, c) => ys[p][1] > ys[q][2]

InitLayout ==
    /\ \E r \in 1..(MaxLayoutCoord + 1) : \E c \in 1..(MaxLayoutCoord + 1) :
          /\ r * c <= MaxLayoutElems
          /\ LET placements == [1..(r * c) -> Intervals(MaxLayoutCoord)]
                 clearXs == {xs \in placements : ColumnsClear(xs, c)}
                 clearYs == {ys \in placements : RowsClear(ys, c)}
             IN  \E xs \in clearXs : \E ys \in clearYs :
                    \E perm \in Permutations(1..(r * c)) :
                        /\ elements =
                              [k \in 1..(r * c) |->
                                  [x0 |-> xs[perm[k]][1], x1 |-> xs[perm[k]][2],
                                   y0 |-> ys[perm[k]][1], y1 |-> ys[perm[k]][2]]]
                        /\ layout =
                              [i \in 1..r |-> [j \in 1..c |->
                                  CHOOSE k \in 1..(r * c) : perm[k] = (i - 1) * c + j]]
    /\ table = <<>>
    /\ header = NoHeader
    /\ result = NoResult

SpecLayout == InitLayout /\ [][Next]_vars

(***************************************************************************)
(* SpecShape and SpecHeader: the shape validator and the header merge over *)
(* grids of strings.                                                       *)
(***************************************************************************)
Strings == {"a", "b"}

SeqsUpTo(S, n) == UNION {[1..k -> S] : k \in 0..n}

Grids(maxRows) == SeqsUpTo(SeqsUpTo(Strings, MaxWidth), maxRows)

InitShape ==
    /\ elements = <<>>
    /\ layout = <<>>
    /\ table \in Grids(MaxShapeRows)
    /\ header = NoHeader
    /\ result = NoResult

NextShape == ValidateTableShape

SpecShape == InitShape /\ [][NextShape]_vars

InitHeader ==
    /\ elements = <<>>
    /\ layout = <<>>
    /\ table \in Grids(MaxHeaderRows)
    /\ header \in {NoHeader} \cup {Header(h) : h \in SeqsUpTo(Strings, MaxHeaderLen)}
    /\ result = NoResult

NextHeader == AddHeaderToTable

SpecHeader == InitHeader /\ [][NextHeader]_vars

(***************************************************************************)
(* Properties.                                                             *)
(***************************************************************************)
RowError == "TableExtractionError: An element is in multiple rows"
ColError == "TableExtractionError: An element is in multiple columns"

Returned(op) == result.op = op /\ result.status = "returned"

Rectangular(t) == \A i \in DOMAIN t : Len(t[i]) = Len(t[1])

\* The elements held by the rows, columns and cells of a grid.
RowElems(t, i) == {t[i][j] : j \in DOMAIN t[i]} \ {None}
ColElems(t, j) == {t[i][j] : i \in DOMAIN t} \ {None}
GridElems(t) == UNION {RowElems(t, i) : i \in DOMAIN t}
\* The cells that hold e, and the number of non-empty cells.
Places(t, e) == {<<i, j>> \in (DOMAIN t) \X (1..Len(t[1])) : t[i][j] = e}
NonEmptyCells(t) ==
    Cardinality({<<i, j>> \in (DOMAIN t) \X (1..Len(t[1])) : t[i][j] # None})

\* The collection's iteration order yields the layout's top-left element first,
\* the elements of its first row left to right and those of its first column
\* top to bottom.
AnchorIsTopLeft ==
    /\ layout[1][1] = 1
    /\ \A j, k \in DOMAIN layout[1] : j < k => layout[1][j] < layout[1][k]
    /\ \A i, k \in DOMAIN layout : i < k => layout[i][1] < layout[k][1]

\* C1 as stated: on a gap-free layout extract_simple_table returns the layout's
\* grid whichever element the collection yields first.
C1_AnyAnchor ==
    result.op = "extract_simple_table" =>
        result.status = "returned" /\ result.table = layout

\* C1 amended: on a gap-free layout whose top-left element is elements[0] and
\* whose first row and first column are iterated left to right and top to
\* bottom, extract_simple_table returns the grid whose cell (i, j) is the
\* element at row i, column j of the layout.
C1_TopLeftAnchor ==
    (result.op = "extract_simple_table" /\ AnchorIsTopLeft) =>
        result.status = "returned" /\ result.table = layout

C1_Witness ==
    /\ Returned("extract_simple_table")
    /\ AnchorIsTopLeft
    /\ Len(layout) = 2 /\ Len(layout[1]) = 2
    /\ layout[2][2] = 2
    /\ result.table = layout

\* C2: on a gap-free layout, in any iteration order, extract_table returns the
\* grid whose cell (i, j) is the element at row i (top to bottom) and column j
\* (left to right) of the layout.
C2_AlignmentReadsLayout ==
    result.op = "extract_table" =>
        result.status = "returned" /\ result.table = layout

C2_Witness ==
    /\ Returned("extract_table")
    /\ Len(layout) = 2 /\ Len(layout[1]) = 2
    /\ layout[1][1] # 1
    /\ elements[layout[1][1]].y0 # elements[layout[1][2]].y0
    /\ elements[layout[1][1]].x0 # elements[layout[2][1]].x0
    /\ result.table = layout

\* C3: extract_simple_table fails with TableExtractionError whenever the number
\* of non-empty cells it reconstructed differs from the size of the collection,
\* so a grid it returns has no empty cell.
C3_NonEmptyCellsMatchInput ==
    /\ (result.op = "extract_simple_table"
          /\ result.status \in {"returned", "TableExtractionError"}
          /\ NonEmptyCells(simple_table) # Len(elements))
            => result.status = "TableExtractionError"
    /\ Returned("extract_simple_table") =>
          \A i \in DOMAIN result.table : \A j \in DOMAIN result.table[i] :
                result.table[i][j] # None

\* An element belongs to more than one of the distinct groups.
InTwoGroups(groups) ==
    \E e \in Ids : \E g1, g2 \in groups : g1 # g2 /\ e \in g1 /\ e \in g2

\* C4: extract_table raises "An element is in multiple rows" iff some element
\* belongs to more than one distinct row-set, and otherwise raises "An element
\* is in multiple columns" iff some element belongs to more than one distinct
\* column-set; neither error comes with a grid.
C4_DisjointnessCheck ==
    result.op = "extract_table" =>
        /\ result.status = RowError <=> InTwoGroups(rows)
        /\ ~InTwoGroups(rows) => (result.status = ColError <=> InTwoGroups(cols))
        /\ result.status \in {RowError, ColError} => result.table = <<>>

C4_Witness ==
    /\ result.op = "extract_table"
    /\ result.status = ColError
    /\ ~InTwoGroups(rows)
    /\ Cardinality(rows) >= 2

\* Two distinct elements are in line with each other both ways.
InLineBothWays ==
    \E a, b \in Ids :
        /\ a # b
        /\ YOverlap(elements[a], elements[b])
        /\ XOverlap(elements[a], elements[b])

ChecksPassed == result.op = "extract_table" /\ result.status \notin {RowError, ColError}

\* C9 as stated: once both disjointness checks pass, every intersection of a
\* row-set and a column-set holds at most one element and the call does not
\* fail with the multiple-elements condition.
C9_AtMostOnePerCell ==
    ChecksPassed =>
        /\ \A r \in rows : \A c \in cols : Cardinality(r \cap c) <= 1
        /\ result.status # "MultipleElementsFoundError"

\* C9 amended: once both disjointness checks pass, every intersection of a
\* row-set and a column-set holds at most one element unless two distinct
\* elements are both horizontally and vertically in line with each other; in
\* that case, and only then, some intersection holds several elements and the
\* call fails with MultipleElementsFoundError.
C9_AtMostOneUnlessOverlap ==
    ChecksPassed =>
        /\ (\A r \in rows : \A c \in cols : Cardinality(r \cap c) <= 1) <=> ~InLineBothWays
        /\ result.status = "MultipleElementsFoundError" <=> InLineBothWays

C9_Witness ==
    /\ Returned("extract_table")
    /\ ~InLineBothWays
    /\ Cardinality(rows) >= 2 /\ Cardinality(cols) >= 2
    /\ \E r \in rows : \E c \in cols : r \cap c = {}
    /\ \E r \in rows : Cardinality(r) >= 2

\* C10: a grid returned by extract_table is rectangular with one row per
\* distinct row-set and one column per distinct column-set, and every input
\* element occupies exactly one cell: the cell of its own row-set and its own
\* column-set.
C10_ElementConservation ==
    Returned("extract_table") =>
        LET t == result.table
        IN  /\ Len(elements) > 0
            /\ Rectangular(t)
            /\ Len(t) = Cardinality(rows)
            /\ Len(t[1]) = Cardinality(cols)
            /\ NonEmptyCells(t) = Len(elements)
            /\ \A e \in Ids :
                  /\ Cardinality(Places(t, e)) = 1
                  /\ \A pl \in Places(t, e) :
                        /\ RowElems(t, pl[1]) = horizontally_in_line_with(Ids, e)
                        /\ ColElems(t, pl[2]) = vertically_in_line_with(Ids, e)

C10_Witness ==
    /\ Returned("extract_table")
    /\ Len(elements) = 3
    /\ Len(result.table) = 2 /\ Len(result.table[1]) = 2
    /\ NonEmptyCells(result.table) = 3

\* C5: _validate_table_shape succeeds iff every row has the length of row 0,
\* and otherwise fails with InvalidTableError naming the first row whose length
\* differs, row 0's length and that row's length; it has no other outcome.
C5_ShapeContract ==
    result.op = "_validate_table_shape" =>
        /\ result.status = "returned" <=> Rectangular(table)
        /\ result.status # "returned" =>
              /\ result.status = "InvalidTableError"
              /\ result.err_row = FirstBadRow(table) - 1
              /\ result.err_expected = Len(table[1])
              /\ result.err_actual = Len(table[result.err_row + 1])

\* The header is supplied, as wide as the table and without a repeated label.
ValidHeader ==
    /\ ~header.is_none
    /\ Len(table) > 0 /\ Rectangular(table)
    /\ Len(header.labels) = Len(table[1])
    /\ \A j, k \in DOMAIN header.labels : j # k => header.labels[j] # header.labels[k]

\* C6: with a valid explicit header (the empty header included) the output has
\* one mapping per input row, in order, the i-th sending header[j] to
\* table[i][j]; no row is dropped.
C6_ExplicitHeaderKeepsRows ==
    (result.op = "add_header_to_table" /\ ValidHeader) =>
        /\ result.status = "returned"
        /\ Len(result.mapped) = Len(table)
        /\ \A i \in DOMAIN result.mapped : \A j \in DOMAIN header.labels :
              /\ header.labels[j] \in DOMAIN result.mapped[i]
              /\ result.mapped[i][header.labels[j]] = table[i][j]

\* C7: without a header, on a rectangular table G the output has len(G) - 1
\* mappings, the i-th sending G[0][j] to G[i+1][j] for every column j, with as
\* many entries as the table has columns.
C7_FirstRowIsHeader ==
    (result.op = "add_header_to_table" /\ header.is_none
        /\ Len(table) > 0 /\ Rectangular(table)) =>
        /\ result.status = "returned"
        /\ Len(result.mapped) = Len(table) - 1
        /\ \A i \in DOMAIN result.mapped :
              /\ Cardinality(DOMAIN result.mapped[i]) = Len(table[1])
              /\ \A j \in DOMAIN table[1] :
                    /\ table[1][j] \in DOMAIN result.mapped[i]
                    /\ result.mapped[i][table[1][j]] = table[i + 1][j]

HeaderErrors == {"InvalidTableHeaderError: length", "InvalidTableHeaderError: repeated"}

C8_Rejects ==
    (result.op = "add_header_to_table" /\ ~header.is_none
        /\ Len(table) > 0 /\ Rectangular(table)) =>
        /\ Len(header.labels) # Len(table[1]) =>
              result.status = "InvalidTableHeaderError: length"
        /\ (Len(header.labels) = Len(table[1])
              /\ Cardinality(Range(header.labels)) # Len(header.labels)) =>
              result.status = "InvalidTableHeaderError: repeated"
        /\ result.status \in HeaderErrors => result.mapped = <<>>

\* C8: for a rectangular table and a supplied header, add_header_to_table fails
\* with InvalidTableHeaderError if the header's length differs from the table's
\* column count, and if the lengths match but a label is repeated; no output is
\* produced and the caller's table and header are left unchanged.
C8_HeaderValidation ==
    /\ []C8_Rejects
    /\ [][table' = table /\ header' = header]_vars

C8_Witness ==
    /\ result.op = "add_header_to_table"
    /\ result.status = "InvalidTableHeaderError: repeated"
    /\ Len(table) = 2
    /\ Len(header.labels) = 2

====
